---- MODULE Spec2Model ----
(***************************************************************************)
(* Students CRUD command-line utility (src/app/app.py).                    *)
(*                                                                         *)
(* One step of the model is one run of the program: main() parses the      *)
(* process arguments, calls at most one repository operation, and the      *)
(* process exits.  The students table of the relational store is the only  *)
(* state that survives a run; the other variables record what the last run *)
(* did (calls, output, exit status, connection handling).                  *)
(***************************************************************************)
EXTENDS Integers, Sequences, FiniteSets, TLC

(***************************************************************************)
(* Bounds                                                                  *)
(***************************************************************************)
\* Identifiers the store may assign are 1..MaxId.
MaxId == 2

(***************************************************************************)
(* Strings.  Command-line arguments are strings; the two conversions the   *)
(* program applies to them (int() by argparse, strptime by addStudent)     *)
(* work on their characters, given by Chars.                               *)
(***************************************************************************)
Chars ==
     ("1" :> <<"1">>) @@ ("2" :> <<"2">>) @@ ("3" :> <<"3">>)
  @@ ("4" :> <<"4">>) @@ ("07" :> <<"0","7">>) @@ ("-1" :> <<"-","1">>)
  @@ ("x" :> <<"x">>)
  @@ ("1815-12-10" :> <<"1","8","1","5","-","1","2","-","1","0">>)
  @@ ("2024-1-5"   :> <<"2","0","2","4","-","1","-","5">>)
  @@ ("2024/01/01" :> <<"2","0","2","4","/","0","1","/","0","1">>)
  @@ ("2023-02-29" :> <<"2","0","2","3","-","0","2","-","2","9">>)
  @@ ("0000-01-01" :> <<"0","0","0","0","-","0","1","-","0","1">>)

DigitVal ==
     ("0" :> 0) @@ ("1" :> 1) @@ ("2" :> 2) @@ ("3" :> 3) @@ ("4" :> 4)
  @@ ("5" :> 5) @@ ("6" :> 6) @@ ("7" :> 7) @@ ("8" :> 8) @@ ("9" :> 9)

DigitChar == <<"1","2","3","4","5","6","7","8","9">>

IsDigit(c) == c \in DOMAIN DigitVal

ToDigit(n) == IF n = 0 THEN "0" ELSE DigitChar[n]

\* The value of the decimal digits c[from..to].
RECURSIVE Number(_, _, _)
Number(c, from, to) ==
  IF to < from THEN 0
  ELSE 10 * Number(c, from, to - 1) + DigitVal[c[to]]

AllDigits(c, from, to) ==
  /\ from <= to
  /\ \A i \in from..to : IsDigit(c[i])

(***************************************************************************)
(* int(): argparse's type=int conversion of student_id.  An optional sign  *)
(* followed by decimal digits; anything else raises ValueError, which      *)
(* argparse reports as "invalid int value".                                *)
(***************************************************************************)
IntSigned(c) == Len(c) >= 1 /\ c[1] \in {"+", "-"}

IsInt(s) ==
  LET c == Chars[s]
      first == IF IntSigned(c) THEN 2 ELSE 1
  IN  AllDigits(c, first, Len(c))

IntOf(s) ==
  LET c == Chars[s]
      first == IF IntSigned(c) THEN 2 ELSE 1
      n == Number(c, first, Len(c))
  IN  IF Len(c) >= 1 /\ c[1] = "-" THEN 0 - n ELSE n

(***************************************************************************)
(* datetime.strptime(enrollment_date, "%Y-%m-%d").                         *)
(* %Y is four digits; %m is 1[0-2], 0[1-9] or [1-9]; %d is 3[01], [12]\d,  *)
(* 0[1-9], [1-9] or a space and [1-9]; the whole string must be consumed.  *)
(* The fields must then form a calendar date with year >= 1.               *)
(***************************************************************************)
MonthField(c, from, len) ==
  IF len = 2
  THEN \/ c[from] = "1" /\ c[from + 1] \in {"0", "1", "2"}
       \/ c[from] = "0" /\ IsDigit(c[from + 1]) /\ c[from + 1] # "0"
  ELSE IsDigit(c[from]) /\ c[from] # "0"

DayField(c, from, len) ==
  IF len = 2
  THEN \/ c[from] = "3" /\ c[from + 1] \in {"0", "1"}
       \/ c[from] \in {"1", "2"} /\ IsDigit(c[from + 1])
       \/ c[from] \in {"0", " "} /\ IsDigit(c[from + 1]) /\ c[from + 1] # "0"
  ELSE IsDigit(c[from]) /\ c[from] # "0"

\* The field value, where a leading space of %d counts as no digit.
FieldVal(c, from, len) ==
  IF len = 2 /\ c[from] = " " THEN DigitVal[c[from + 1]]
  ELSE Number(c, from, from + len - 1)

\* The (month length, day length) splits under which the format matches.
FormatSplits(c) ==
  { sp \in {1, 2} \X {1, 2} :
      /\ Len(c) = 6 + sp[1] + sp[2]
      /\ AllDigits(c, 1, 4)
      /\ c[5] = "-"
      /\ MonthField(c, 6, sp[1])
      /\ c[6 + sp[1]] = "-"
      /\ DayField(c, 7 + sp[1], sp[2]) }

IsLeap(y) == (y % 4 = 0 /\ y % 100 # 0) \/ y % 400 = 0

DaysInMonth(y, m) ==
  IF m = 2 THEN (IF IsLeap(y) THEN 29 ELSE 28)
  ELSE IF m \in {4, 6, 9, 11} THEN 30 ELSE 31

\* The date the matched string denotes.
DateOf(c) ==
  LET sp == CHOOSE s \in FormatSplits(c) : TRUE
  IN  [year  |-> Number(c, 1, 4),
       month |-> FieldVal(c, 6, sp[1]),
       day   |-> FieldVal(c, 7 + sp[1], sp[2])]

\* TRUE iff strptime returns instead of raising ValueError.
strptime_ok(s) ==
  LET c == Chars[s]
  IN  /\ FormatSplits(c) # {}
      /\ DateOf(c).year >= 1
      /\ DateOf(c).day <= DaysInMonth(DateOf(c).year, DateOf(c).month)

\* str() of a datetime.date, as printed by getAllStudents: YYYY-MM-DD.
isoformat(d) ==
  << ToDigit(d.year \div 1000), ToDigit((d.year \div 100) % 10),
     ToDigit((d.year \div 10) % 10), ToDigit(d.year % 10), "-",
     ToDigit(d.month \div 10), ToDigit(d.month % 10), "-",
     ToDigit(d.day \div 10), ToDigit(d.day % 10) >>

(***************************************************************************)
(* The students table: a set of rows.  enrollment_date is a DATE column,   *)
(* held as a calendar date; the other columns hold the text as given.      *)
(***************************************************************************)
Row(id, first_name, last_name, email, date) ==
  [student_id |-> id, first_name |-> first_name, last_name |-> last_name,
   email |-> email, enrollment_date |-> date]

Ids(db) == { r.student_id : r \in db }

\* Mutant: the rows in descending order (ORDER BY ... DESC).
RECURSIVE OrderByStudentIdDesc(_)
OrderByStudentIdDesc(db) ==
  IF db = {} THEN << >>
  ELSE LET r == CHOOSE x \in db : \A y \in db : x.student_id >= y.student_id
       IN  <<r>> \o OrderByStudentIdDesc(db \ {r})

\* ORDER BY student_id: the rows by ascending student_id (ties in any order).
RECURSIVE OrderByStudentId(_)
OrderByStudentId(db) ==
  IF db = {} THEN << >>
  ELSE LET r == CHOOSE x \in db : \A y \in db : x.student_id <= y.student_id
       IN  <<r>> \o OrderByStudentId(db \ {r})

\* SELECT ... FROM students ORDER BY student_id; fetchall().
sql_select(db) == OrderByStudentId(db)

\* Mutant: first_name and last_name are bound to each other's column.
sql_insert_swapped(db, id, first_name, last_name, email, enrollment_date) ==
  db \cup {Row(id, last_name, first_name, email, DateOf(Chars[enrollment_date]))}

\* INSERT ... VALUES (%s, %s, %s, %s): the store supplies student_id and
\* converts the enrollment_date text to a DATE.
sql_insert(db, id, first_name, last_name, email, enrollment_date) ==
  db \cup {Row(id, first_name, last_name, email, DateOf(Chars[enrollment_date]))}

\* Mutant: the UPDATE has no WHERE clause.
sql_update_all(db, new_email, student_id) ==
  { [r EXCEPT !.email = new_email] : r \in db }

\* Mutant: the UPDATE sets the wrong column.
sql_update_first_name(db, new_email, student_id) ==
  { IF r.student_id = student_id THEN [r EXCEPT !.first_name = new_email] ELSE r :
      r \in db }

\* UPDATE students SET email = %s WHERE student_id = %s.
sql_update(db, new_email, student_id) ==
  { IF r.student_id = student_id THEN [r EXCEPT !.email = new_email] ELSE r :
      r \in db }

\* Mutant: the DELETE has no WHERE clause.
sql_delete_all(db, student_id) == { r \in db : FALSE }

\* DELETE FROM students WHERE student_id = %s.
sql_delete(db, student_id) == { r \in db : r.student_id # student_id }

\* student_id INTEGER PRIMARY KEY (store-generated): the identifiers the store
\* may generate, and the uniqueness check of the primary key.
GeneratedIds == 1..MaxId

primary_key_taken(db, id) == id \in Ids(db)

\* RETURNING student_id of an UPDATE or DELETE, then fetchone(): TRUE iff a
\* row comes back.
fetchone_found(db, student_id) == \E r \in db : r.student_id = student_id

(***************************************************************************)
(* Connection handling.  psycopg2 opens a transaction with the first       *)
(* statement.  Leaving "with conn:" commits the open transaction when the  *)
(* block ended normally (a return included) and rolls it back when the     *)
(* block raised; it does not close the connection.  Leaving                *)
(* "with conn.cursor() as cur:" closes the cursor.                         *)
(***************************************************************************)
\* Environment of one run: the store answers, refuses the connection, or
\* fails the statement.
Faults == {"none", "connect", "execute"}

\* What a repository operation did, as seen when it returns or raises.
NoRun ==
  [store |-> {}, ret |-> << >>, out |-> << >>, exc |-> "none",
   connects |-> 0, executes |-> 0, commit_calls |-> 0, commits |-> 0,
   rollbacks |-> 0, conn |-> "none", cur |-> "none"]

\* get_conn() raised: nothing was opened.
ConnectFailed(db) ==
  [NoRun EXCEPT !.store = db, !.exc = "OperationalError", !.connects = 1]

\* Leaving the two with blocks.  work is the table as the open transaction
\* sees it, intrans whether a transaction is still open, raised whether the
\* block is left by an exception.
conn_exit(r, work, intrans, raised) ==
  IF raised
  THEN [r EXCEPT !.rollbacks = @ + 1, !.cur = "closed", !.conn = "open"]
  ELSE IF intrans
       THEN [r EXCEPT !.store = work, !.commits = @ + 1,
                      !.cur = "closed", !.conn = "open"]
       ELSE [r EXCEPT !.cur = "closed", !.conn = "open"]

\* conn.commit() called by the operation: the transaction's work becomes the
\* table.
conn_commit(r, work) ==
  [r EXCEPT !.store = work, !.commit_calls = @ + 1, !.commits = @ + 1]

\* cur.execute() raised inside the with blocks.
ExecuteFailed(db, exc) ==
  conn_exit([NoRun EXCEPT !.store = db, !.exc = exc, !.connects = 1,
                          !.executes = 1],
            db, TRUE, TRUE)

\* The run after a successful get_conn() and execute().
Executed(db) == [NoRun EXCEPT !.store = db, !.connects = 1, !.executes = 1]

(***************************************************************************)
(* Output lines.                                                           *)
(***************************************************************************)
Line(text, id, fields, date) ==
  [text |-> text, id |-> id, fields |-> fields, date |-> date]

Message(text, id) == Line(text, id, << >>, << >>)

\* f"{student_id}: {first_name} {last_name} ({email}) - {enrollment_date}"
RowLine(r) ==
  Line("row", r.student_id, <<r.first_name, r.last_name, r.email>>,
       isoformat(r.enrollment_date))

(***************************************************************************)
(* Repository operations                                                   *)
(***************************************************************************)
getAllStudents(db, fault) ==
  IF fault = "connect" THEN ConnectFailed(db)
  ELSE IF fault = "execute" THEN ExecuteFailed(db, "DatabaseError")
  ELSE LET rows == sql_select(db)
           r == Executed(db)
       IN  IF rows = << >>
           THEN conn_exit([r EXCEPT !.out = <<Message("No students found.", 0)>>,
                                    !.ret = << >>],
                          db, TRUE, FALSE)
           ELSE conn_exit([r EXCEPT !.out = [i \in 1..Len(rows) |-> RowLine(rows[i])],
                                    !.ret = rows],
                          db, TRUE, FALSE)

\* Mutant: the date is validated after the insert was committed.
addStudent_late_validation(db, fault, id, first_name, last_name, email, date) ==
  IF fault = "connect" THEN ConnectFailed(db)
  ELSE IF fault = "execute" \/ FormatSplits(Chars[date]) = {}
       THEN ExecuteFailed(db, "DatabaseError")
  ELSE IF primary_key_taken(db, id) THEN ExecuteFailed(db, "IntegrityError")
  ELSE LET work == sql_insert(db, id, first_name, last_name, email, date)
           r == conn_commit(Executed(db), work)
       IN  IF ~ strptime_ok(date)
           THEN conn_exit([r EXCEPT !.exc = "ValueError"], work, FALSE, TRUE)
           ELSE conn_exit([r EXCEPT !.out = <<Message("Added student with ID", id)>>],
                          work, FALSE, FALSE)

\* id is the student_id the store generates for this insert; the primary
\* key rejects it (IntegrityError) when a row already has it.
addStudent(db, fault, id, first_name, last_name, email, enrollment_date) ==
  IF ~ strptime_ok(enrollment_date)
  THEN [NoRun EXCEPT !.store = db, !.exc = "ValueError"]
  ELSE IF fault = "connect" THEN ConnectFailed(db)
  ELSE IF fault = "execute" THEN ExecuteFailed(db, "DatabaseError")
  ELSE IF primary_key_taken(db, id) THEN ExecuteFailed(db, "IntegrityError")
  ELSE LET work == sql_insert(db, id, first_name, last_name, email, enrollment_date)
           r == conn_commit(Executed(db), work)
       IN  conn_exit([r EXCEPT !.out = <<Message("Added student with ID", id)>>],
                     work, FALSE, FALSE)

\* Mutant: the "return" after the not-found message is missing.
updateStudentEmail_no_return(db, fault, student_id, new_email) ==
  IF fault = "connect" THEN ConnectFailed(db)
  ELSE IF fault = "execute" THEN ExecuteFailed(db, "DatabaseError")
  ELSE LET work == sql_update(db, new_email, student_id)
           r == conn_commit(Executed(db), work)
           found == <<Message("Updated email for student", student_id)>>
       IN  IF ~ fetchone_found(db, student_id)
           THEN conn_exit([r EXCEPT !.out = <<Message("No student found with id", student_id)>>
                                            \o found],
                          work, FALSE, FALSE)
           ELSE conn_exit([r EXCEPT !.out = found], work, FALSE, FALSE)

updateStudentEmail(db, fault, student_id, new_email) ==
  IF fault = "connect" THEN ConnectFailed(db)
  ELSE IF fault = "execute" THEN ExecuteFailed(db, "DatabaseError")
  ELSE LET work == sql_update(db, new_email, student_id)
           r == Executed(db)
       IN  IF ~ fetchone_found(db, student_id)
           THEN conn_exit([r EXCEPT !.out = <<Message("No student found with id", student_id)>>],
                          work, TRUE, FALSE)
           ELSE conn_exit([conn_commit(r, work) EXCEPT
                             !.out = <<Message("Updated email for student", student_id)>>],
                          work, FALSE, FALSE)

deleteStudent(db, fault, student_id) ==
  IF fault = "connect" THEN ConnectFailed(db)
  ELSE IF fault = "execute" THEN ExecuteFailed(db, "DatabaseError")
  ELSE LET work == sql_delete(db, student_id)
           r == Executed(db)
       IN  IF ~ fetchone_found(db, student_id)
           THEN conn_exit([r EXCEPT !.out = <<Message("No student found with id", student_id)>>],
                          work, TRUE, FALSE)
           ELSE conn_exit([conn_commit(r, work) EXCEPT
                             !.out = <<Message("Deleted student", student_id)>>],
                          work, FALSE, FALSE)

(***************************************************************************)
(* Command-line parsing (argparse as configured by main).                  *)
(***************************************************************************)
\* The positional arguments of each subcommand, with their types.
Positionals ==
     ("list" :> << >>)
  @@ ("add" :> <<"str", "str", "str", "str">>)
  @@ ("update-email" :> <<"int", "str">>)
  @@ ("delete" :> <<"int">>)

\* Mutant: arguments beyond the positionals are ignored (parse_known_args).
RECURSIVE ScanArgs_known(_, _, _, _, _)
ScanArgs_known(rest, types, i, taken, extras) ==
  IF i > Len(rest)
  THEN IF taken < Len(types) THEN "error" ELSE "ok"
  ELSE IF rest[i] = "-h" THEN "help"
  ELSE IF taken < Len(types)
       THEN IF types[taken + 1] = "int" /\ ~ IsInt(rest[i]) THEN "error"
            ELSE ScanArgs_known(rest, types, i + 1, taken + 1, extras)
       ELSE ScanArgs_known(rest, types, i + 1, taken, TRUE)

\* The subparser reads the arguments left to right: a -h prints the help and
\* exits; a positional is converted as it is taken, a failed int() being an
\* error; arguments beyond the positionals and missing positionals are
\* errors reported at the end.
RECURSIVE ScanArgs(_, _, _, _, _)
ScanArgs(rest, types, i, taken, extras) ==
  IF i > Len(rest)
  THEN IF taken < Len(types) \/ extras THEN "error" ELSE "ok"
  ELSE IF rest[i] = "-h" THEN "help"
  ELSE IF taken < Len(types)
       THEN IF types[taken + 1] = "int" /\ ~ IsInt(rest[i]) THEN "error"
            ELSE ScanArgs(rest, types, i + 1, taken + 1, extras)
       ELSE ScanArgs(rest, types, i + 1, taken, TRUE)

\* parser.parse_args(): "ok" with the subcommand and its raw arguments,
\* "help" (exit status 0) or "error" (usage message, exit status 2).
parse_args(args) ==
  IF args = << >> THEN [status |-> "error", cmd |-> "", args |-> << >>]
  ELSE IF args[1] = "-h" THEN [status |-> "help", cmd |-> "", args |-> << >>]
  ELSE IF args[1] \notin DOMAIN Positionals
       THEN [status |-> "error", cmd |-> "", args |-> << >>]
  ELSE [status |-> ScanArgs(Tail(args), Positionals[args[1]], 1, 0, FALSE),
        cmd |-> args[1], args |-> Tail(args)]

(***************************************************************************)
(* Inputs of the model                                                     *)
(***************************************************************************)
FirstNames == {"Ada"}
LastNames == {"Lovelace"}
Emails == {"ada@example.com"}
NewEmails == {"new@example.com"}
DateArgs == {"1815-12-10", "2024-1-5", "2024/01/01", "2023-02-29",
             "0000-01-01"}
IdArgs == {"1", "2", "3", "07", "-1", "x"}

AddArgvs ==
  { <<"add", f, l, e, d>> :
      f \in FirstNames, l \in LastNames, e \in Emails, d \in DateArgs }
   \cup { <<"add", "Ada", "Lovelace", "ada@example.com">>,
          <<"add", "Ada", "Lovelace", "ada@example.com", "1815-12-10", "x">>,
          <<"add", "Ada", "-h">> }

UpdateArgvs ==
  { <<"update-email", i, e>> : i \in IdArgs, e \in NewEmails }
   \cup { <<"update-email", "1">>, <<"update-email", "x", "-h">>,
          <<"update-email", "1", "new@example.com", "x">> }

DeleteArgvs ==
  { <<"delete", i>> : i \in IdArgs }
   \cup { <<"delete">>, <<"delete", "1", "2">>, <<"delete", "1", "2", "-h">> }

OtherArgvs ==
  { << >>, <<"-h">>, <<"bogus">>, <<"bogus", "-h">>, <<"list">>,
    <<"list", "x">>, <<"list", "-h">> }

Argvs == AddArgvs \cup UpdateArgvs \cup DeleteArgvs \cup OtherArgvs

(***************************************************************************)
(* State                                                                   *)
(***************************************************************************)
VARIABLES
  store,        \* the rows of the students table
  argv,         \* the arguments of the last run
  env,          \* how the store behaved during the last run (one of Faults)
  calls,        \* the repository operations main called, with their arguments
  exit,         \* the exit status of the process
  stdout,       \* the lines printed by the run
  stderr,       \* the lines written to standard error by the run
  ret,          \* the value getAllStudents returned
  exc,          \* the exception that ended the run, or "none"
  connects,     \* calls of get_conn()
  executes,     \* statements sent to the store
  commit_calls, \* calls of conn.commit() by the operation
  commits,      \* transactions committed, by the operation or on leaving "with conn"
  rollbacks,    \* transactions rolled back on leaving "with conn"
  conn,         \* the connection when the operation returns or raises
  cur           \* the cursor when the operation returns or raises

vars == <<store, argv, env, calls, exit, stdout, stderr, ret, exc, connects,
          executes, commit_calls, commits, rollbacks, conn, cur>>

Call(op, args) == [op |-> op, args |-> args]

\* An uncaught exception: the interpreter prints the traceback (one entry
\* here for the lines of each frame) and exits with status 1.
Traceback(op, e) ==
  <<"Traceback (most recent call last):", "<module>", "main", op, e>>

UsageError == <<"usage:", "error:">>

HelpText == <<"usage:", "description", "options">>

Init ==
  /\ store = {}
  /\ argv = << >>
  /\ env = "none"
  /\ calls = << >>
  /\ exit = 0
  /\ stdout = << >>
  /\ stderr = << >>
  /\ ret = << >>
  /\ exc = "none"
  /\ connects = 0
  /\ executes = 0
  /\ commit_calls = 0
  /\ commits = 0
  /\ rollbacks = 0
  /\ conn = "none"
  /\ cur = "none"

\* The run ends after the one operation main called.
Finish(args, fault, call, r) ==
  /\ argv' = args
  /\ env' = fault
  /\ calls' = <<call>>
  /\ store' = r.store
  /\ ret' = r.ret
  /\ stdout' = r.out
  /\ exc' = r.exc
  /\ stderr' = IF r.exc = "none" THEN << >> ELSE Traceback(call.op, r.exc)
  /\ exit' = IF r.exc = "none" THEN 0 ELSE 1
  /\ connects' = r.connects
  /\ executes' = r.executes
  /\ commit_calls' = r.commit_calls
  /\ commits' = r.commits
  /\ rollbacks' = r.rollbacks
  /\ conn' = r.conn
  /\ cur' = r.cur

\* parse_args() ends the process: no operation is called.
main_exit(args) ==
  LET p == parse_args(args)
  IN  /\ p.status # "ok"
      /\ argv' = args
      /\ env' = "none"
      /\ calls' = << >>
      /\ exit' = IF p.status = "help" THEN 0 ELSE 2
      /\ stdout' = IF p.status = "help" THEN HelpText ELSE << >>
      /\ stderr' = IF p.status = "help" THEN << >> ELSE UsageError
      /\ ret' = << >>
      /\ exc' = IF p.status = "help" THEN "none" ELSE "SystemExit"
      /\ connects' = 0
      /\ executes' = 0
      /\ commit_calls' = 0
      /\ commits' = 0
      /\ rollbacks' = 0
      /\ conn' = "none"
      /\ cur' = "none"
      /\ UNCHANGED store

main_list(args, fault) ==
  LET p == parse_args(args)
  IN  /\ p.status = "ok"
      /\ p.cmd = "list"
      /\ Finish(args, fault, Call("getAllStudents", << >>), getAllStudents(store, fault))

main_add(args, fault, id) ==
  LET p == parse_args(args)
  IN  /\ p.status = "ok"
      /\ p.cmd = "add"
      /\ Finish(args, fault, Call("addStudent", p.args),
                addStudent(store, fault, id, p.args[1], p.args[2], p.args[3],
                           p.args[4]))

main_update_email(args, fault) ==
  LET p == parse_args(args)
  IN  /\ p.status = "ok"
      /\ p.cmd = "update-email"
      /\ Finish(args, fault, Call("updateStudentEmail", <<IntOf(p.args[1]), p.args[2]>>),
                updateStudentEmail(store, fault, IntOf(p.args[1]), p.args[2]))

main_delete(args, fault) ==
  LET p == parse_args(args)
  IN  /\ p.status = "ok"
      /\ p.cmd = "delete"
      /\ Finish(args, fault, Call("deleteStudent", <<IntOf(p.args[1])>>),
                deleteStudent(store, fault, IntOf(p.args[1])))

Usage == \E args \in Argvs : main_exit(args)

List == \E args \in OtherArgvs, fault \in Faults : main_list(args, fault)

Add ==
  \E args \in AddArgvs, fault \in Faults, id \in GeneratedIds :
    main_add(args, fault, id)

UpdateEmail ==
  \E args \in UpdateArgvs, fault \in Faults : main_update_email(args, fault)

Delete == \E args \in DeleteArgvs, fault \in Faults : main_delete(args, fault)

Next == Usage \/ List \/ Add \/ UpdateEmail \/ Delete

Spec == Init /\ [][Next]_vars

(***************************************************************************)
(* Properties                                                              *)
(***************************************************************************)
\* The last run called the repository operation op.
Called(cs, op) == cs # << >> /\ cs[1].op = op

\* The string has the shape YYYY-MM-DD: four digits, two digits, two digits.
YYYY_MM_DD(s) ==
  LET c == Chars[s]
  IN  /\ Len(c) = 10
      /\ \A i \in {1, 2, 3, 4, 6, 7, 9, 10} : IsDigit(c[i])
      /\ c[5] = "-" /\ c[8] = "-"

\* What a list() run against table db returns when the store answers.
ListOf(db) == getAllStudents(db, "none").ret

\* The step is a delete or an update-email of student_id id.
Touches(cs, id) ==
  /\ cs # << >>
  /\ cs[1].op \in {"deleteStudent", "updateStudentEmail"}
  /\ cs[1].args[1] = id

\* C1: a successful insert with a valid YYYY-MM-DD date reports an id N that
\* no row had before, and list() then returns a row with id N and the
\* inserted values; a row stays in list() as it is through every later run
\* that is not a delete or an update-email of its id.
C1_InsertedIsListed ==
  [][ /\ (Called(calls', "addStudent") /\ exc' = "none") =>
           LET a == calls'[1].args
               N == stdout'[1].id
               rows == ListOf(store')
           IN  /\ stdout' = <<Message("Added student with ID", N)>>
               /\ N \notin Ids(store)
               /\ YYYY_MM_DD(a[4]) =>
                    \E i \in 1..Len(rows) :
                      /\ rows[i].student_id = N
                      /\ rows[i].first_name = a[1]
                      /\ rows[i].last_name = a[2]
                      /\ rows[i].email = a[3]
                      /\ isoformat(rows[i].enrollment_date) = Chars[a[4]]
      /\ LET before == ListOf(store)
             after == ListOf(store')
         IN  \A i \in 1..Len(before) :
               ~ Touches(calls', before[i].student_id) =>
                 \E j \in 1..Len(after) : after[j] = before[i]
    ]_vars

C1_Witness ==
  /\ Called(calls, "addStudent")
  /\ exc = "none"
  /\ YYYY_MM_DD(calls[1].args[4])
  /\ \E r \in store : r.student_id = stdout[1].id /\ r.first_name = calls[1].args[1]
  /\ Cardinality(store) >= 2

\* C2: list() leaves the store unchanged and, when the store answers,
\* returns exactly the rows of the store, each once, in strictly ascending
\* student_id order; with no rows it returns the empty sequence, prints
\* "No students found." and ends without an error.
C2_ListIsSortedStore ==
  [][ Called(calls', "getAllStudents") =>
        /\ store' = store
        /\ env' = "none" =>
             /\ exc' = "none"
             /\ exit' = 0
             /\ { ret'[i] : i \in 1..Len(ret') } = store
             /\ Len(ret') = Cardinality(store)
             /\ \A i \in 1..Len(ret') - 1 :
                  ret'[i].student_id < ret'[i + 1].student_id
             /\ store = {} =>
                  /\ ret' = << >>
                  /\ stdout' = <<Message("No students found.", 0)>>
    ]_vars

C2_Witness ==
  /\ Called(calls, "getAllStudents")
  /\ exc = "none"
  /\ Len(ret) >= 2
  /\ ret[1].student_id < ret[2].student_id

\* C3 (as claimed): an insert whose enrollment_date does not have the shape
\* YYYY-MM-DD fails with ValueError before any store interaction and leaves
\* the store as it was.
C3_MalformedDateRejected ==
  [][ (Called(calls', "addStudent") /\ ~ YYYY_MM_DD(calls'[1].args[4])) =>
        /\ exc' = "ValueError"
        /\ connects' = 0
        /\ executes' = 0
        /\ store' = store
    ]_vars

\* update-email of student_id id with new_email e, when the store answers:
\* not found leaves the store unchanged with n commits; found changes the
\* email of that row only.
UpdateEmailEffect(n) ==
  (Called(calls', "updateStudentEmail") /\ env' = "none") =>
    LET id == calls'[1].args[1]
        e == calls'[1].args[2]
    IN  IF id \notin Ids(store)
        THEN /\ stdout' = <<Message("No student found with id", id)>>
             /\ n = 0
             /\ store' = store
        ELSE /\ stdout' = <<Message("Updated email for student", id)>>
             /\ \A r \in store :
                  IF r.student_id = id
                  THEN [r EXCEPT !.email = e] \in store'
                  ELSE r \in store'
             /\ Cardinality(store') = Cardinality(store)

\* C4 (as claimed): update-email of an absent id reports "not found", does
\* not commit and leaves the store unchanged; of a present id it changes
\* that row's email only.
C4_Original == [][UpdateEmailEffect(commits')]_vars

\* C4 (amended): as C4, except that the operation does not itself call
\* commit on the not-found path; leaving the connection's scope commits the
\* transaction, which holds no change.
C4_UpdateEmailFrame ==
  [][ /\ UpdateEmailEffect(commit_calls')
      /\ (Called(calls', "updateStudentEmail") /\ env' = "none"
            /\ calls'[1].args[1] \notin Ids(store)) => commits' = 1
    ]_vars

C4_Witness ==
  /\ Called(calls, "updateStudentEmail")
  /\ stdout = <<Message("No student found with id", calls[1].args[1])>>
  /\ commit_calls = 0
  /\ commits = 1
  /\ store # {}

\* delete of student_id id, when the store answers: a present id loses
\* exactly its row; an absent id is reported "not found" with n commits and
\* an unchanged store; a delete repeated right after a successful one is
\* reported "not found".
DeleteEffect(n) ==
  /\ (Called(calls', "deleteStudent") /\ env' = "none") =>
       LET id == calls'[1].args[1]
       IN  IF id \in Ids(store)
           THEN /\ stdout' = <<Message("Deleted student", id)>>
                /\ store' = { r \in store : r.student_id # id }
                /\ Cardinality(store') = Cardinality(store) - 1
           ELSE /\ stdout' = <<Message("No student found with id", id)>>
                /\ n = 0
                /\ store' = store
  /\ (/\ Called(calls, "deleteStudent")
      /\ stdout = <<Message("Deleted student", calls[1].args[1])>>
      /\ calls' = calls
      /\ env' = "none") =>
       /\ stdout' = <<Message("No student found with id", calls[1].args[1])>>
       /\ store' = store

\* C5 (as claimed): delete removes exactly the row of a present id; a second
\* delete of the same id reports "not found", does not commit and leaves the
\* store unchanged.
C5_Original == [][DeleteEffect(commits')]_vars

\* C5 (amended): as C5, except that the operation does not itself call
\* commit on the not-found path; leaving the connection's scope commits the
\* transaction, which holds no change.
C5_DeleteIdempotent ==
  [][ /\ DeleteEffect(commit_calls')
      /\ (Called(calls', "deleteStudent") /\ env' = "none"
            /\ calls'[1].args[1] \notin Ids(store)) => commits' = 1
    ]_vars

C5_Witness ==
  /\ Called(calls, "deleteStudent")
  /\ stdout = <<Message("Deleted student", calls[1].args[1])>>
  /\ calls[1].args[1] \notin Ids(store)
  /\ store # {}

\* C6 (as claimed): every outcome of a list, add, update-email or delete
\* run produces exactly one line of output.
C6_Original == calls # << >> => Len(stdout) + Len(stderr) = 1

\* C6 (amended): a run that ends without an error prints one line for add,
\* update-email and delete, and for list one line per record, or the one
\* line "No students found." when there is none; a run that ends in an
\* error is described by more than one line (a traceback) on standard error.
C6_OutputLines ==
  calls # << >> =>
    IF exc = "none"
    THEN /\ stderr = << >>
         /\ IF calls[1].op = "getAllStudents"
            THEN Len(stdout) = (IF store = {} THEN 1 ELSE Cardinality(store))
            ELSE Len(stdout) = 1
    ELSE Len(stderr) > 1

C6_Witness ==
  /\ Called(calls, "getAllStudents")
  /\ exc = "none"
  /\ Len(stdout) >= 2

\* The exceptions of the error taxonomy: validation, connection, store.
ErrorKinds == {"ValueError", "OperationalError", "DatabaseError", "IntegrityError"}

\* C7: a run that ends in a validation, connection or store error leaves
\* the store as it was, calls the operation, get_conn and execute at most
\* once, and exits with a non-zero status; a failing store ends the run in
\* an error; update-email and delete of an absent id exit with status 0.
C7_ErrorsLeaveStore ==
  [][ /\ (calls' # << >> /\ exc' \in ErrorKinds) =>
           /\ store' = store
           /\ exit' # 0
           /\ Len(calls') = 1
           /\ connects' <= 1
           /\ executes' <= 1
      /\ (connects' > 0 /\ env' # "none") => exc' \in ErrorKinds
      /\ (/\ calls' # << >>
          /\ calls'[1].op \in {"updateStudentEmail", "deleteStudent"}
          /\ env' = "none"
          /\ calls'[1].args[1] \notin Ids(store)) =>
           /\ exc' = "none"
           /\ exit' = 0
    ]_vars

C7_Witness ==
  /\ Called(calls, "addStudent")
  /\ exc = "IntegrityError"
  /\ exit = 1
  /\ rollbacks = 1
  /\ store # {}

\* The arguments name a subcommand and give exactly its arguments, with an
\* integer student_id.
Arity(cmd) ==
  CASE cmd = "list" -> 0
    [] cmd = "add" -> 4
    [] cmd = "update-email" -> 2
    [] cmd = "delete" -> 1

HasHelp(a) == \E i \in 1..Len(a) : a[i] = "-h"

WellFormed(a) ==
  /\ a # << >>
  /\ a[1] \in {"list", "add", "update-email", "delete"}
  /\ Len(a) = 1 + Arity(a[1])
  /\ ~ HasHelp(a)
  /\ a[1] \in {"update-email", "delete"} => IsInt(a[2])

ExpectedCall(a) ==
  CASE a[1] = "list" -> Call("getAllStudents", << >>)
    [] a[1] = "add" -> Call("addStudent", <<a[2], a[3], a[4], a[5]>>)
    [] a[1] = "update-email" -> Call("updateStudentEmail", <<IntOf(a[2]), a[3]>>)
    [] a[1] = "delete" -> Call("deleteStudent", <<IntOf(a[2])>>)

\* C8 (as claimed): well-formed arguments make main call exactly the one
\* matching operation with the parsed arguments; anything else calls no
\* operation, opens no connection and fails with a usage message and a
\* non-zero exit status.
C8_Original ==
  [][ IF WellFormed(argv')
      THEN calls' = <<ExpectedCall(argv')>>
      ELSE /\ calls' = << >>
           /\ connects' = 0
           /\ exit' # 0
           /\ stderr' = UsageError
    ]_vars

\* C8 (amended): as C8, except that arguments holding -h may instead print
\* the help text and exit with status 0, still without calling an operation
\* or opening a connection.
C8_Dispatch ==
  [][ IF WellFormed(argv')
      THEN calls' = <<ExpectedCall(argv')>>
      ELSE /\ calls' = << >>
           /\ connects' = 0
           /\ \/ exit' # 0 /\ stderr' = UsageError
              \/ HasHelp(argv') /\ exit' = 0 /\ stdout' = HelpText
    ]_vars

C8_Witness ==
  /\ argv = <<"delete", "1", "2">>
  /\ calls = << >>
  /\ exit = 2
  /\ store # {}

\* C9: no two rows share a student_id; a row appears only through an
\* insert, disappears only through a delete of its id, and in between keeps
\* its student_id, first_name, last_name and enrollment_date, its email
\* changing only through an update-email of its id.
C9_Lifecycle ==
  /\ [](\A r1, r2 \in store : r1.student_id = r2.student_id => r1 = r2)
  /\ [][ \A id \in 1..MaxId :
           /\ (id \notin Ids(store) /\ id \in Ids(store')) =>
                (Called(calls', "addStudent") /\ stdout'[1].id = id)
           /\ (id \in Ids(store) /\ id \notin Ids(store')) =>
                calls' = <<Call("deleteStudent", <<id>>)>>
           /\ (id \in Ids(store) /\ id \in Ids(store')) =>
                \A r \in store, q \in store' :
                  (r.student_id = id /\ q.student_id = id) =>
                    /\ q.first_name = r.first_name
                    /\ q.last_name = r.last_name
                    /\ q.enrollment_date = r.enrollment_date
                    /\ q.email # r.email =>
                         calls' = <<Call("updateStudentEmail", <<id, q.email>>)>>
       ]_vars

C9_Witness ==
  /\ Called(calls, "updateStudentEmail")
  /\ Cardinality(store) >= 2
  /\ \E r, q \in store : r.email # q.email /\ r.email = calls[1].args[2]

\* C10 (as claimed): an operation opens one connection of its own, and when
\* it returns or raises the cursor and the connection it opened are closed.
C10_ConnectionReleased ==
  calls # << >> =>
    /\ connects <= 1
    /\ conn # "none" => conn = "closed"
    /\ cur # "none" => cur = "closed"

====
